---- MODULE Spec2Model ----
(***************************************************************************)
(* RandomProbePointSet (src/Movement/BedProbing/RandomProbePointSet.cpp):   *)
(* the fixed-capacity store of bed probe points, the 3-point plane fit and  *)
(* the 4-point ruled-surface fit, the height query and the probe report.    *)
(*                                                                         *)
(* Numbers.  The C++ floats are modelled as exact rationals <<n, d>> in     *)
(* lowest terms with d > 0, extended with the IEEE non-finite values:       *)
(* <<1, 0>> is +inf, <<-1, 0>> is -inf and <<0, 0>> is NaN.  Rounding and   *)
(* the sign of zero are not modelled.  <<0, -1>> stands for a member that   *)
(* the constructor leaves uninitialised and that no method reads before it  *)
(* is written.  Coordinates and heights handed in by the caller are small   *)
(* integers (the heights handed in are nonzero, zero being what the         *)
(* constructor stores); the uninitialised x/y arrays, which                 *)
(* SetProbedBedEquation may read, start with arbitrary values of the same   *)
(* range as the coordinates handed in.                                      *)
(***************************************************************************)
EXTENDS Integers, Sequences, FiniteSets, TLC

\* ---- bounds of the model ------------------------------------------------
MaxProbePoints == 4
MaxX == 2
MaxY == 1
MaxZ == 1
MaxSteps == 2
MaxIndex == 1

Points == 0 .. (MaxProbePoints - 1)
XVals == 0 .. MaxX
YVals == 0 .. MaxY
ZVals == 1 .. MaxZ
FitCounts == 0 .. (MaxProbePoints + 1)

\* ---- exact arithmetic with IEEE non-finite values -------------------------
Abs(n) == IF n < 0 THEN -n ELSE n

Sign(n) == IF n < 0 THEN -1 ELSE IF n > 0 THEN 1 ELSE 0

RECURSIVE Gcd(_, _)
Gcd(a, b) == IF b = 0 THEN a ELSE Gcd(b, a % b)

Norm(n, d) ==
    IF d = 0 THEN <<Sign(n), 0>>
    ELSE LET s == IF d < 0 THEN -1 ELSE 1
             g == Gcd(Abs(n), Abs(d))
         IN  <<(s * n) \div g, (s * d) \div g>>

R(i) == <<i, 1>>
Zero == <<0, 1>>
One == <<1, 1>>
NaN == <<0, 0>>
Uninit == <<0, -1>>

IsFinite(a) == a[2] > 0

RNeg(a) == <<-a[1], a[2]>>

RAdd(a, b) ==
    IF a[2] = 0 /\ b[2] = 0
    THEN (IF a = b THEN a ELSE NaN)
    ELSE Norm(a[1] * b[2] + b[1] * a[2], a[2] * b[2])

RSub(a, b) == RAdd(a, RNeg(b))

RMul(a, b) == Norm(a[1] * b[1], a[2] * b[2])

RRecip(a) ==
    IF a[1] > 0 THEN <<a[2], a[1]>>
    ELSE IF a[1] < 0 THEN <<-a[2], -a[1]>>
    ELSE IF a[2] > 0 THEN <<1, 0>>
    ELSE NaN

RDiv(a, b) == RMul(a, RRecip(b))

RLess(a, b) == a[2] > 0 /\ b[2] > 0 /\ a[1] * b[2] < b[1] * a[2]

RMax(a, b) == IF RLess(a, b) THEN b ELSE a

Min(a, b) == IF a < b THEN a ELSE b

\* The positions at which the height query is observed.
QueryPoints == {<<R(i), R(j)>> : i \in XVals, j \in YVals}

\* ---- state ----------------------------------------------------------------
VARIABLES
    xBedProbePoints,            \* float xBedProbePoints[MaxProbePoints]
    yBedProbePoints,            \* float yBedProbePoints[MaxProbePoints]
    zBedProbePoints,            \* float zBedProbePoints[MaxProbePoints]
    probePointSet,              \* uint8_t probePointSet[MaxProbePoints], as a set of flags
    numBedCompensationPoints,   \* 0, or the point count of the fitted model
    aX, aY, aC,                 \* plane coefficients
    xRectangle, yRectangle,     \* reciprocal spans of the 4-point fit
    reply,                      \* what the last SetProbedBedEquation wrote to its reply
    fitError,                   \* what the last SetProbedBedEquation returned (true = error)
    call,                       \* history: the call made last, with its arguments
    lastSetZ,                   \* history: the flag arguments of the last SetZ per index
    lastFitN,                   \* history: numPoints of the last fit that returned false
    fitBefore,                  \* history: the fitted model before the last call
    queryBefore,                \* history: the height query's answers before the last call
    steps                       \* history: number of calls made so far

vars == <<xBedProbePoints, yBedProbePoints, zBedProbePoints, probePointSet,
          numBedCompensationPoints, aX, aY, aC, xRectangle, yRectangle,
          reply, fitError, call, lastSetZ, lastFitN, fitBefore, queryBefore, steps>>

fitState == <<numBedCompensationPoints, aX, aY, aC, xRectangle, yRectangle>>

coordinates == <<xBedProbePoints, yBedProbePoints>>

store == <<xBedProbePoints, yBedProbePoints, zBedProbePoints, probePointSet>>

NoCall == [op |-> "none"]

unset == {}

NoReply == [kind |-> "none", arg |-> 0, warning |-> FALSE]

\* The constructor: every flag unset, every z zero, no model; x, y and the
\* coefficients are left as the memory held them.
InitWith(GX, GY) ==
    /\ xBedProbePoints \in [Points -> GX]
    /\ yBedProbePoints \in [Points -> GY]
    /\ zBedProbePoints = [point \in Points |-> 0]
    /\ probePointSet = [point \in Points |-> unset]
    /\ numBedCompensationPoints = 0
    /\ aX = Uninit /\ aY = Uninit /\ aC = Uninit
    /\ xRectangle = Uninit /\ yRectangle = Uninit
    /\ reply = NoReply
    /\ fitError = FALSE
    /\ call = NoCall
    /\ lastSetZ = [point \in Points |-> <<>>]
    /\ lastFitN = 0
    /\ fitBefore = <<0, Uninit, Uninit, Uninit, Uninit, Uninit>>
    /\ queryBefore = [q \in QueryPoints |-> Zero]
    /\ steps = 0

\* ---- the point store ------------------------------------------------------
SetXYBedProbePoint(index, x, y) ==
    /\ xBedProbePoints' = [xBedProbePoints EXCEPT ![index] = x]
    /\ yBedProbePoints' = [yBedProbePoints EXCEPT ![index] = y]
    /\ probePointSet' = [probePointSet EXCEPT ![index] = @ \cup {"xySet"}]
    /\ UNCHANGED <<zBedProbePoints, fitState, reply, fitError>>

\* The flag updates of SetZBedProbePoint.
FlagsAfterSetZStickyError(flags, wasXyCorrected, wasError) ==
    LET f1 == flags \cup {"zSet"}
        f2 == IF wasXyCorrected THEN f1 \cup {"xyCorrected"} ELSE f1 \ {"xyCorrected"}
    IN  IF wasError THEN f2 \cup {"probeError"} ELSE f2

FlagsAfterSetZStickyCorrected(flags, wasXyCorrected, wasError) ==
    LET f1 == flags \cup {"zSet"}
        f2 == IF wasXyCorrected THEN f1 \cup {"xyCorrected"} ELSE f1
    IN  IF wasError THEN f2 \cup {"probeError"} ELSE f2 \ {"probeError"}

FlagsAfterSetZ(flags, wasXyCorrected, wasError) ==
    LET f1 == flags \cup {"zSet"}
        f2 == IF wasXyCorrected THEN f1 \cup {"xyCorrected"} ELSE f1 \ {"xyCorrected"}
    IN  IF wasError THEN f2 \cup {"probeError"} ELSE f2 \ {"probeError"}

SetZBedProbePoint(index, z, wasXyCorrected, wasError) ==
    /\ zBedProbePoints' = [zBedProbePoints EXCEPT ![index] = z]
    /\ probePointSet' = [probePointSet EXCEPT
                            ![index] = FlagsAfterSetZ(@, wasXyCorrected, wasError)]
    /\ UNCHANGED <<coordinates, fitState, reply, fitError>>

FullySet(flags) == {"xySet", "zSet"} \subseteq flags

NumberOfProbePoints ==
    LET notSet == {i \in Points : ~FullySet(probePointSet[i])}
    IN  IF notSet = {} THEN MaxProbePoints
        ELSE CHOOSE i \in notSet : \A j \in notSet : i <= j

\* The flag update of ClearProbeHeights.
ClearedFlagsNoComplement(flags) == flags \cap {"zSet"}

ClearedFlags(flags) == flags \ {"zSet"}

ClearProbeHeights ==
    /\ probePointSet' = [i \in Points |-> ClearedFlags(probePointSet[i])]
    /\ UNCHANGED <<coordinates, zBedProbePoints, fitState, reply, fitError>>

GoodProbePoints(numPoints) ==
    \A i \in 0 .. (numPoints - 1) :
        probePointSet[i] \cap {"xySet", "zSet", "probeError"} = {"xySet", "zSet"}

\* ---- the ordering check ---------------------------------------------------
GoodProbePointOrderingStrict(numPoints) ==
    IF numPoints >= 2 /\ yBedProbePoints[1] < yBedProbePoints[0] THEN FALSE
    ELSE IF numPoints >= 3 /\ xBedProbePoints[2] <= xBedProbePoints[1] THEN FALSE
    ELSE IF numPoints >= 4 /\ yBedProbePoints[3] >= yBedProbePoints[2] THEN FALSE
    ELSE IF numPoints >= 4 /\ xBedProbePoints[0] >= xBedProbePoints[3] THEN FALSE
    ELSE TRUE

GoodProbePointOrdering(numPoints) ==
    IF numPoints >= 2 /\ yBedProbePoints[1] <= yBedProbePoints[0] THEN FALSE
    ELSE IF numPoints >= 3 /\ xBedProbePoints[2] <= xBedProbePoints[1] THEN FALSE
    ELSE IF numPoints >= 4 /\ yBedProbePoints[3] >= yBedProbePoints[2] THEN FALSE
    ELSE IF numPoints >= 4 /\ xBedProbePoints[0] >= xBedProbePoints[3] THEN FALSE
    ELSE TRUE

\* ---- the fits -------------------------------------------------------------
\* case 3: the plane through points 0, 1 and 2, as <<aX, aY, aC>>.
PlaneCoefficients ==
    LET x10 == R(xBedProbePoints[1] - xBedProbePoints[0])
        y10 == R(yBedProbePoints[1] - yBedProbePoints[0])
        z10 == R(zBedProbePoints[1] - zBedProbePoints[0])
        x20 == R(xBedProbePoints[2] - xBedProbePoints[0])
        y20 == R(yBedProbePoints[2] - yBedProbePoints[0])
        z20 == R(zBedProbePoints[2] - zBedProbePoints[0])
        a == RSub(RMul(y10, z20), RMul(z10, y20))
        b == RSub(RMul(z10, x20), RMul(x10, z20))
        c == RSub(RMul(x10, y20), RMul(y10, x20))
        d == RNeg(RAdd(RAdd(RMul(R(xBedProbePoints[1]), a),
                            RMul(R(yBedProbePoints[1]), b)),
                       RMul(R(zBedProbePoints[1]), c)))
    IN  <<RDiv(RNeg(a), c), RDiv(RNeg(b), c), RDiv(RNeg(d), c)>>

\* case 4: the two scaling factors, as <<xRectangle, yRectangle>>.
RectangleScales ==
    <<RDiv(One, R(xBedProbePoints[3] - xBedProbePoints[0])),
      RDiv(One, R(yBedProbePoints[1] - yBedProbePoints[0]))>>

\* The ordering check fails only for numPoints >= 2, so the unsigned
\* min(numPoints, 4) - 1 never wraps.
OrderingReply(numPoints) ==
    [kind |-> "order", arg |-> Min(numPoints, 4) - 1, warning |-> FALSE]

UnsupportedReply(numPoints) ==
    [kind |-> "unsupported", arg |-> numPoints, warning |-> FALSE]

FitsReply(numPoints) ==
    [kind |-> "fits", arg |-> numPoints, warning |-> TRUE]

\* The ordering check failed: report it and return true.
RejectOrderingScalesFirst(numPoints) ==
    /\ reply' = OrderingReply(numPoints)
    /\ fitError' = TRUE
    /\ IF numPoints = 4
       THEN /\ xRectangle' = RectangleScales[1]
            /\ yRectangle' = RectangleScales[2]
            /\ UNCHANGED <<store, numBedCompensationPoints, aX, aY, aC>>
       ELSE UNCHANGED <<store, fitState>>

RejectOrdering(numPoints) ==
    /\ reply' = OrderingReply(numPoints)
    /\ fitError' = TRUE
    /\ UNCHANGED <<store, fitState>>

\* case 3 and what follows the switch.
FitPlane(numPoints) ==
    /\ aX' = PlaneCoefficients[1]
    /\ aY' = PlaneCoefficients[2]
    /\ aC' = PlaneCoefficients[3]
    /\ numBedCompensationPoints' = numPoints
    /\ reply' = FitsReply(numPoints)
    /\ fitError' = FALSE
    /\ UNCHANGED <<store, xRectangle, yRectangle>>

\* case 4 and what follows the switch.
FitRuledSurface(numPoints) ==
    /\ xRectangle' = RectangleScales[1]
    /\ yRectangle' = RectangleScales[2]
    /\ numBedCompensationPoints' = numPoints
    /\ reply' = FitsReply(numPoints)
    /\ fitError' = FALSE
    /\ UNCHANGED <<store, aX, aY, aC>>

\* The default case: report the count and return true.
RejectCountCountFirst(numPoints) ==
    /\ numBedCompensationPoints' = numPoints
    /\ reply' = UnsupportedReply(numPoints)
    /\ fitError' = TRUE
    /\ UNCHANGED <<store, aX, aY, aC, xRectangle, yRectangle>>

RejectCount(numPoints) ==
    /\ reply' = UnsupportedReply(numPoints)
    /\ fitError' = TRUE
    /\ UNCHANGED <<store, fitState>>

\* Set the bed transform, returning true if error.
SetProbedBedEquationSwitchFirst(numPoints) ==
    IF numPoints \notin {3, 4} THEN RejectCount(numPoints)
    ELSE IF ~GoodProbePointOrdering(numPoints) THEN RejectOrdering(numPoints)
    ELSE IF numPoints = 3 THEN FitPlane(numPoints)
    ELSE FitRuledSurface(numPoints)

SetProbedBedEquation(numPoints) ==
    IF ~GoodProbePointOrdering(numPoints) THEN RejectOrdering(numPoints)
    ELSE IF numPoints = 3 THEN FitPlane(numPoints)
    ELSE IF numPoints = 4 THEN FitRuledSurface(numPoints)
    ELSE RejectCount(numPoints)

\* ---- the height query -----------------------------------------------------
SecondDegreeTransformZSwapped(x, y) ==
    LET u == RMul(RSub(x, R(xBedProbePoints[0])), xRectangle)
        v == RMul(RSub(y, R(yBedProbePoints[0])), yRectangle)
        t0 == RMul(RMul(RSub(One, u), RSub(One, v)), R(zBedProbePoints[0]))
        t3 == RMul(RMul(u, RSub(One, v)), R(zBedProbePoints[1]))
        t1 == RMul(RMul(RSub(One, u), v), R(zBedProbePoints[3]))
        t2 == RMul(RMul(u, v), R(zBedProbePoints[2]))
    IN  RAdd(RAdd(RAdd(t0, t3), t1), t2)

SecondDegreeTransformZ(x, y) ==
    LET u == RMul(RSub(x, R(xBedProbePoints[0])), xRectangle)
        v == RMul(RSub(y, R(yBedProbePoints[0])), yRectangle)
        t0 == RMul(RMul(RSub(One, u), RSub(One, v)), R(zBedProbePoints[0]))
        t3 == RMul(RMul(u, RSub(One, v)), R(zBedProbePoints[3]))
        t1 == RMul(RMul(RSub(One, u), v), R(zBedProbePoints[1]))
        t2 == RMul(RMul(u, v), R(zBedProbePoints[2]))
    IN  RAdd(RAdd(RAdd(t0, t3), t1), t2)

GetInterpolatedHeightErrorRefit(x, y) ==
    IF numBedCompensationPoints = 3
    THEN RAdd(RAdd(RMul(PlaneCoefficients[1], x), RMul(PlaneCoefficients[2], y)),
              PlaneCoefficients[3])
    ELSE IF numBedCompensationPoints = 4
    THEN SecondDegreeTransformZ(x, y)
    ELSE Zero

GetInterpolatedHeightError(x, y) ==
    IF numBedCompensationPoints = 3
    THEN RAdd(RAdd(RMul(aX, x), RMul(aY, y)), aC)
    ELSE IF numBedCompensationPoints = 4
    THEN SecondDegreeTransformZ(x, y)
    ELSE Zero

\* ---- the probe report -----------------------------------------------------
\* The records whose height ReportProbeHeights prints and adds to its sums.
ReportedPoints(numPoints) ==
    {i \in 0 .. (numPoints - 1) :
        FullySet(probePointSet[i]) /\ "probeError" \notin probePointSet[i]}

RECURSIVE SumOver(_, _)
SumOver(S, f) ==
    IF S = {} THEN 0
    ELSE LET i == CHOOSE j \in S : TRUE
         IN  f[i] + SumOver(S \ {i}, f)

ReportItem(i) ==
    IF ~FullySet(probePointSet[i]) THEN "not set"
    ELSE IF "probeError" \in probePointSet[i] THEN "probing failed"
    ELSE "height"

ReportMean(numPoints) ==
    RDiv(R(SumOver(ReportedPoints(numPoints), zBedProbePoints)), R(numPoints))

\* The radicand of the reported deviation, sqrtf being one-to-one on it.
ReportDeviationSquared(numPoints) ==
    LET sumOfSquares == SumOver(ReportedPoints(numPoints),
                                [i \in Points |-> zBedProbePoints[i] * zBedProbePoints[i]])
        mean == ReportMean(numPoints)
    IN  RMax(RSub(RDiv(R(sumOfSquares), R(numPoints)), RMul(mean, mean)), Zero)

\* ---- the observer -----------------------------------------------------------
\* What the height query answers at every observed position.
QueryAll == [q \in QueryPoints |-> GetInterpolatedHeightError(q[1], q[2])]

\* ---- the callers ----------------------------------------------------------
\* A caller makes one call at a time (the object has a single owner) and the
\* history variables record it.
Record(c, limit) ==
    /\ steps < limit
    /\ steps' = steps + 1
    /\ call' = c
    /\ lastSetZ' = IF c.op = "SetZ"
                   THEN [lastSetZ EXCEPT ![c.index] = <<c.corrected, c.error>>]
                   ELSE lastSetZ
    /\ lastFitN' = IF c.op = "Fit" /\ ~fitError' THEN c.n ELSE lastFitN
    /\ fitBefore' = fitState
    /\ queryBefore' = QueryAll

CallSetXY(I, XS, YS, limit) ==
    \E index \in I, x \in XS, y \in YS :
        /\ SetXYBedProbePoint(index, x, y)
        /\ Record([op |-> "SetXY", index |-> index, x |-> x, y |-> y], limit)

CallSetZ(I, ZS, limit) ==
    \E index \in I, z \in ZS, wasXyCorrected \in BOOLEAN, wasError \in BOOLEAN :
        /\ SetZBedProbePoint(index, z, wasXyCorrected, wasError)
        /\ Record([op |-> "SetZ", index |-> index, z |-> z,
                   corrected |-> wasXyCorrected, error |-> wasError], limit)

CallClear(limit) ==
    /\ ClearProbeHeights
    /\ Record([op |-> "Clear"], limit)

CallFit(limit) ==
    \E numPoints \in FitCounts :
        /\ SetProbedBedEquation(numPoints)
        /\ Record([op |-> "Fit", n |-> numPoints], limit)

\* The fitting scenario: any of the MaxProbePoints records, the full range of
\* coordinates (also in the uninitialised arrays), a few calls.
FitSetXY == CallSetXY(Points, XVals, YVals, MaxSteps)
FitSetZ == CallSetZ(Points, ZVals, MaxSteps)
FitClear == CallClear(MaxSteps)
FitFit == CallFit(MaxSteps)

InitFit == InitWith(XVals, YVals)
NextFit == FitSetXY \/ FitSetZ \/ FitClear \/ FitFit
SpecFit == InitFit /\ [][NextFit]_vars

\* The store scenario: the first records only, coordinates of 0 .. MaxY on
\* both axes, twice as many calls.
StoreIndices == 0 .. MaxIndex
StoreSteps == 2 * MaxSteps
StoreSetXY == CallSetXY(StoreIndices, YVals, YVals, StoreSteps)
StoreSetZ == CallSetZ(StoreIndices, ZVals, StoreSteps)
StoreClear == CallClear(StoreSteps)
StoreFit == CallFit(StoreSteps)

Init == InitWith(YVals, YVals)
Next == StoreSetXY \/ StoreSetZ \/ StoreClear \/ StoreFit
Spec == Init /\ [][Next]_vars

\* ---- what the properties are stated with ----------------------------------
\* The ordering rules as the specification lists them.
OrderingRules(n) ==
    /\ n >= 2 => yBedProbePoints[1] > yBedProbePoints[0]
    /\ n >= 3 => xBedProbePoints[2] > xBedProbePoints[1]
    /\ n >= 4 => /\ yBedProbePoints[3] < yBedProbePoints[2]
                 /\ xBedProbePoints[0] < xBedProbePoints[3]

\* Points 0..3 are the corners of an axis-aligned rectangle, in the layout of
\* the 4-point fit.
IsRectangle ==
    /\ xBedProbePoints[1] = xBedProbePoints[0]
    /\ xBedProbePoints[2] = xBedProbePoints[3]
    /\ yBedProbePoints[2] = yBedProbePoints[1]
    /\ yBedProbePoints[3] = yBedProbePoints[0]

\* Records 0 .. n-1 all have xySet and zSet and none has probeError.
PrefixGood(n) ==
    \A j \in 0 .. (n - 1) :
        /\ "xySet" \in probePointSet[j]
        /\ "zSet" \in probePointSet[j]
        /\ "probeError" \notin probePointSet[j]

\* The records among the first n that are fully set and have no probeError.
ValidPoints(n) ==
    {j \in 0 .. (n - 1) :
        /\ "xySet" \in probePointSet[j]
        /\ "zSet" \in probePointSet[j]
        /\ "probeError" \notin probePointSet[j]}

FitFailed == call.op = "Fit" /\ fitError

FitSucceeded == call.op = "Fit" /\ ~fitError

\* ---- C1 -------------------------------------------------------------------
\* C1: a SetProbedBedEquation call that returns an error leaves
\* numBedCompensationPoints, aX, aY, aC, xRectangle and yRectangle exactly as
\* they were, and every height query answers as before the call.
C1_FailedFitKeepsModel ==
    FitFailed => (fitState = fitBefore /\ QueryAll = queryBefore)

\* A fit rejected by the ordering check while an earlier model is in place.
C1_Witness ==
    /\ FitFailed
    /\ reply.kind = "order"
    /\ numBedCompensationPoints \in {3, 4}

C3_UnsupportedAlwaysReported ==
    [][(call'.op = "Fit" /\ call'.n \notin {3, 4}) =>
        /\ fitError'
        /\ reply'.kind = "unsupported"
        /\ fitState' = fitState]_vars

\* C3 as amended: SetProbedBedEquation(n) with n other than 3 and 4 returns an
\* error and leaves the fitted model unchanged; the reply is the "only 3 and 4
\* points supported" one when the ordering rules that apply to n hold, and the
\* ordering reply naming point min(n, 4) - 1 when one of them is violated.
C3_UnsupportedFails ==
    [][(call'.op = "Fit" /\ call'.n \notin {3, 4}) =>
        /\ fitError'
        /\ fitState' = fitState
        /\ IF OrderingRules(call'.n)
           THEN reply'.kind = "unsupported" /\ reply'.arg = call'.n
           ELSE reply'.kind = "order" /\ reply'.arg = Min(call'.n, 4) - 1]_vars

\* A fit over MaxProbePoints + 1 points refused for its count while a model is
\* in place.
C3_Witness ==
    /\ FitFailed
    /\ call.n = MaxProbePoints + 1
    /\ reply.kind = "unsupported"
    /\ numBedCompensationPoints \in {3, 4}

\* ---- C4 -------------------------------------------------------------------
\* C4 as stated: SetXY(i, x, y) followed by SetZ(i, z, false, false) makes
\* GoodProbePoints(i + 1) true and leaves x, y, z in record i.
C4_GoodAfterSetXYSetZ ==
    [][(/\ call.op = "SetXY"
        /\ call'.op = "SetZ"
        /\ call'.index = call.index
        /\ ~call'.corrected
        /\ ~call'.error) =>
        /\ GoodProbePoints(call.index + 1)'
        /\ xBedProbePoints'[call.index] = call.x
        /\ yBedProbePoints'[call.index] = call.y
        /\ zBedProbePoints'[call.index] = call'.z]_vars

\* C4 as amended: SetXY(i, x, y) followed by SetZ(i, z, false, false) leaves
\* x, y, z in record i, and GoodProbePoints(i + 1) is then true exactly when
\* the records 0 .. i-1 are all fully set without probeError.
C4_GoodAfterSetXYSetZGivenPrefix ==
    [][(/\ call.op = "SetXY"
        /\ call'.op = "SetZ"
        /\ call'.index = call.index
        /\ ~call'.corrected
        /\ ~call'.error) =>
        /\ GoodProbePoints(call.index + 1)' <=> PrefixGood(call.index)
        /\ xBedProbePoints'[call.index] = call.x
        /\ yBedProbePoints'[call.index] = call.y
        /\ zBedProbePoints'[call.index] = call'.z]_vars

\* Record 1 just completed by SetZ(1, z, false, false) on top of a good
\* record 0.
C4_Witness ==
    /\ call.op = "SetZ"
    /\ call.index = 1
    /\ ~call.corrected
    /\ ~call.error
    /\ "xySet" \in probePointSet[1]
    /\ GoodProbePoints(2)

\* ---- C5 -------------------------------------------------------------------
\* C5: ClearProbeHeights removes zSet from every record and changes nothing
\* else (no other flag, no coordinate, no height, no part of the fitted
\* model); NumberOfProbePoints is 0 right after it and stays 0 as long as no
\* SetZ on index 0 is made.
C5_ClearOnlyClearsZSet ==
    [][/\ call'.op = "Clear" =>
            /\ NumberOfProbePoints' = 0
            /\ \A i \in Points : probePointSet'[i] = probePointSet[i] \ {"zSet"}
            /\ coordinates' = coordinates
            /\ zBedProbePoints' = zBedProbePoints
            /\ fitState' = fitState
       /\ (/\ "zSet" \notin probePointSet[0]
           /\ ~(call'.op = "SetZ" /\ call'.index = 0)) =>
            NumberOfProbePoints' = 0]_vars

\* ClearProbeHeights called on a store whose record 0 was fully set, with a
\* fitted model in place.
C5_Witness ==
    /\ call.op = "Clear"
    /\ "xySet" \in probePointSet[0]
    /\ lastSetZ[0] # <<>>
    /\ numBedCompensationPoints \in {3, 4}

QueryAtPoint(i) ==
    GetInterpolatedHeightError(R(xBedProbePoints[i]), R(yBedProbePoints[i]))

\* The height query half-way between points 0 and 3 in x and points 0 and 1
\* in y.
QueryAtCentre ==
    GetInterpolatedHeightError(Norm(xBedProbePoints[0] + xBedProbePoints[3], 2),
                               Norm(yBedProbePoints[0] + yBedProbePoints[1], 2))

CornerAverage ==
    Norm(zBedProbePoints[0] + zBedProbePoints[1]
            + zBedProbePoints[2] + zBedProbePoints[3], 4)

\* C7 as stated: after a successful 4-point fit, on whatever points the
\* ordering check accepts, the height query at each of the four points
\* returns that point's z.
C7_CornersExact ==
    (FitSucceeded /\ call.n = 4) =>
        \A i \in 0 .. 3 : QueryAtPoint(i) = R(zBedProbePoints[i])

\* C7 as amended: after a successful 4-point fit on points that are the
\* corners of an axis-aligned rectangle (x1 = x0, x2 = x3, y2 = y1, y3 = y0),
\* the height query at each of the four points returns that point's z, and at
\* the centre of the rectangle the average of the four z.
C7_CornersExactOnRectangle ==
    (FitSucceeded /\ call.n = 4 /\ IsRectangle) =>
        /\ \A i \in 0 .. 3 : QueryAtPoint(i) = R(zBedProbePoints[i])
        /\ QueryAtCentre = CornerAverage

\* A successful 4-point fit on a rectangle whose corner heights differ.
C7_Witness ==
    /\ FitSucceeded
    /\ call.n = 4
    /\ IsRectangle
    /\ \E i, j \in 0 .. 3 : zBedProbePoints[i] # zBedProbePoints[j]

\* ---- C8 -------------------------------------------------------------------
\* C8: the mean ReportProbeHeights(n) reports is the sum of the z of the valid
\* records among the first n divided by the number of valid records.
C8_MeanOfValidPoints ==
    \A n \in 1 .. MaxProbePoints :
        ValidPoints(n) # {} =>
            ReportMean(n) = Norm(SumOver(ValidPoints(n), zBedProbePoints),
                                 Cardinality(ValidPoints(n)))

\* Record 0 valid with a nonzero height, record 1 never completed: the report
\* over the first two records prints one height and " not set".
C8_Witness ==
    /\ ValidPoints(2) = {0}
    /\ zBedProbePoints[0] # 0
    /\ ReportItem(0) = "height"
    /\ ReportItem(1) = "not set"

\* ---- C9 -------------------------------------------------------------------
\* The xyCorrected and probeError flags of every record are the arguments of
\* the last SetZ on its index, and clear when there was none.
FlagsMatchLastSetZ ==
    \A i \in Points :
        LET wanted == IF lastSetZ[i] = <<>> THEN <<FALSE, FALSE>> ELSE lastSetZ[i]
        IN  /\ ("xyCorrected" \in probePointSet[i]) = wanted[1]
            /\ ("probeError" \in probePointSet[i]) = wanted[2]

\* C9: after every call the xyCorrected and probeError flags of each record
\* are the arguments of the last SetZ on that index, and a SetZ changes
\* neither xySet of its record nor any flag of another record.
C9_FlagsReflectLastSetZ ==
    [][/\ FlagsMatchLastSetZ'
       /\ call'.op = "SetZ" =>
            /\ ("xySet" \in probePointSet'[call'.index])
                    = ("xySet" \in probePointSet[call'.index])
            /\ \A j \in Points \ {call'.index} :
                    probePointSet'[j] = probePointSet[j]]_vars

\* A SetZ with both arguments false, not the first call made, on a record
\* that now carries neither xyCorrected nor probeError.
C9_Witness ==
    /\ call.op = "SetZ"
    /\ ~call.corrected
    /\ ~call.error
    /\ steps >= 2
    /\ probePointSet[call.index] \in {{"zSet"}, {"xySet", "zSet"}}
    /\ \A j \in Points \ {call.index} : lastSetZ[j] = <<>>

\* ---- C10 ------------------------------------------------------------------
\* C10: numBedCompensationPoints is 0 until a fit succeeds and from then on
\* the numPoints of the last fit that succeeded, hence 0, 3 or 4 in every
\* state; while it is 0 the height query returns 0 everywhere.
C10_PointCountIsLastFit ==
    /\ numBedCompensationPoints = lastFitN
    /\ numBedCompensationPoints \in {0, 3, 4}
    /\ numBedCompensationPoints = 0 => \A q \in QueryPoints : QueryAll[q] = Zero

\* A 4-point fit refused after a plane fit: the count stays 3.
C10_Witness ==
    /\ FitFailed
    /\ call.n = 4
    /\ numBedCompensationPoints = 3

====
